---- MODULE Spec2Model ----
(***************************************************************************)
(* A model of the financial analysis pipeline: Orchestrator.run and the    *)
(* agents it drives (ResearcherAgent, DataAnalystAgent, ReportWriterAgent, *)
(* PDFGenerator), and the pure helpers clean_text, simple_sentiment and    *)
(* analyze_sentiment_summary.                                              *)
(*                                                                         *)
(* Encodings.  A text is a sequence of Unicode code points.  A polarity    *)
(* as TextBlob produces it is an integer number of 1e-7 units; a polarity  *)
(* after round(.., 4) is an integer number of 1e-4 units.  A Python dict   *)
(* is a record with a field "keys", the set of keys present, and one field *)
(* per key the model reads (absent keys hold a fixed filler).  An          *)
(* exception message is a sequence of strings, the pieces of the f-string. *)
(***************************************************************************)
EXTENDS Integers, Sequences, FiniteSets, TLC

VARIABLES
    ct_hist,        \* clean_text harness: the input, then each successive result
    ss_text,        \* simple_sentiment harness: the text given
    ss_out,         \* simple_sentiment harness: the dict returned
    ss_done,        \* simple_sentiment harness: has it returned
    sm_items,       \* analyze_sentiment_summary harness: the list given
    sm_out,         \* analyze_sentiment_summary harness: the dict returned
    sm_done,        \* analyze_sentiment_summary harness: has it returned
    ind_entry,      \* indicator harness: the function the caller called
    ind_pc,         \* indicator harness: where the call stands
    ind_rows,       \* indicator harness: the rows yf.download returned
    ind_df,         \* indicator harness: the frame fetch_stock_data returned, or the one given
    ind_kpis,       \* indicator harness: the dict extract_kpis returned
    ind_exc,        \* indicator harness: the message of the exception raised
    key,            \* NEWSAPI_KEY is set in the environment
    files,          \* the report files on disk
    clock,          \* the last reading of datetime.now(), in seconds
    entry,          \* the method the client called
    pc,             \* where the call stands
    symbol,         \* stock_symbol / query
    source,         \* ResearcherAgent.source
    max_articles,   \* ResearcherAgent.max_articles
    gen,            \* how the generation service answers during this call
    gpc,            \* where gather_news stands
    mode,           \* gather_news: mode
    primaryErr,     \* gather_news: the exception e its first fetch raised
    rssOut,         \* what the last _fetch_news_rss did
    news_items,     \* the list gather_news returned
    sentiment_summary,
    analysis,       \* what analyze_stock returned
    kpis,
    chart_path,
    report_text,
    pdf_path,
    result,         \* the dict run returned
    exc,            \* the message of the exception raised during this call
    propagated,     \* that exception left the method the client called
    chartEnv,       \* generate_pdf: what it found at chart_path
    doc,            \* the document generate_pdf laid out
    trace,          \* the stages the call went through, in order
    invoked,        \* the methods invoked during the call, in order
    faults          \* the external collaborators that failed during the call

cleanVars == <<ct_hist>>
sentVars == <<ss_text, ss_out, ss_done>>
sumVars == <<sm_items, sm_out, sm_done>>
indVars == <<ind_entry, ind_pc, ind_rows, ind_df, ind_kpis, ind_exc>>
pureVars == <<ct_hist, ss_text, ss_out, ss_done, sm_items, sm_out, sm_done, ind_entry,
              ind_pc, ind_rows, ind_df, ind_kpis, ind_exc>>
diskVars == <<files, clock>>
callVars == <<entry, symbol, source, max_articles, gen>>
newsVars == <<gpc, mode, primaryErr, rssOut>>
localVars == <<news_items, sentiment_summary, analysis, kpis, chart_path, report_text,
               pdf_path>>
outVars == <<result, exc, propagated>>
pdfVars == <<chartEnv, doc>>
histVars == <<trace, invoked, faults>>
pipeVars == <<key, files, clock, entry, pc, symbol, source, max_articles, gen, gpc, mode,
              primaryErr, rssOut, news_items, sentiment_summary, analysis, kpis,
              chart_path, report_text, pdf_path, result, exc, propagated, chartEnv, doc,
              trace, invoked, faults>>
vars == <<pureVars, pipeVars>>

----------------------------------------------------------------------------
(* Bounds of the model *)

\* longest text given to clean_text, besides the named examples
MaxTextLen == 2
\* how many times in a row the harness applies clean_text
CleanApplications == 2
\* half-width, in 1e-7 units, of the raw polarities tried around +-0.1
PolWindow == 600
\* longest news list given to analyze_sentiment_summary
MaxItems == 3
\* last reading of the clock, in seconds
MaxClock == 1
\* most rows in a download
MaxRows == 60

----------------------------------------------------------------------------
(* Generic helpers *)

Range(s) == {s[i] : i \in 1..Len(s)}

SeqsUpTo(S, n) == UNION {[1..k -> S] : k \in 0..n}

Last(s) == s[Len(s)]

----------------------------------------------------------------------------
(* utils/pdf_generator.py: clean_text *)

\* the replacements dict with the em-dash arrow fault: "->" written with an en dash
replacementsDashArrow ==
    << <<8211, <<45>>>>, <<8212, <<45>>>>, <<8226, <<42>>>>, <<8230, <<46, 46, 46>>>>,
       <<8220, <<34>>>>, <<8221, <<34>>>>, <<8216, <<39>>>>, <<8217, <<39>>>>,
       <<9675, <<111>>>>,
       <<8594, <<8211, 62>>>>, <<8592, <<60, 45>>>>, <<8596, <<60, 45, 62>>>>,
       <<8658, <<61, 62>>>>, <<8656, <<60, 61>>>> >>

\* the replacements dict, in insertion order: <<bad character, replacement text>>
replacements ==
    << <<8211, <<45>>>>, <<8212, <<45>>>>, <<8226, <<42>>>>, <<8230, <<46, 46, 46>>>>,
       <<8220, <<34>>>>, <<8221, <<34>>>>, <<8216, <<39>>>>, <<8217, <<39>>>>,
       <<9675, <<111>>>>,
       <<8594, <<45, 62>>>>, <<8592, <<60, 45>>>>, <<8596, <<60, 45, 62>>>>,
       <<8658, <<61, 62>>>>, <<8656, <<60, 61>>>> >>

\* str.replace(bad, good) for a one-character bad
RECURSIVE StrReplace(_, _, _)
StrReplace(text, bad, good) ==
    IF text = <<>> THEN <<>>
    ELSE (IF Head(text) = bad THEN good ELSE <<Head(text)>>)
         \o StrReplace(Tail(text), bad, good)

\* the loop "for bad, good in replacements.items(): text = text.replace(bad, good)"
RECURSIVE ReplaceFrom(_, _)
ReplaceFrom(text, i) ==
    IF i > Len(replacements) THEN text
    ELSE ReplaceFrom(StrReplace(text, replacements[i][1], replacements[i][2]), i + 1)

clean_text(text) == ReplaceFrom(text, 1)

\* "café—test", "café-test" and "cafe-test"
CafeEmDashTest == <<99, 97, 102, 233, 8212, 116, 101, 115, 116>>
CafeAcuteHyphenTest == <<99, 97, 102, 233, 45, 116, 101, 115, 116>>
CafePlainHyphenTest == <<99, 97, 102, 101, 45, 116, 101, 115, 116>>

\* the characters clean_text replaces, and e-acute, "-", ">", "a"
CleanAlphabet == {replacements[i][1] : i \in 1..Len(replacements)} \cup {233, 45, 62, 97}

CleanInputs == SeqsUpTo(CleanAlphabet, MaxTextLen) \cup {CafeEmDashTest}

----------------------------------------------------------------------------
(* utils/sentiment_analysis.py: simple_sentiment *)

\* round(x, 4) of a float x given in 1e-7 units, in 1e-4 units.  x is the decimal
\* the float is nearest to; on a decimal tie the float lies just above or just
\* below it, and tieUp says which.
Round4(x, tieUp) ==
    LET q == x \div 1000
        r == x % 1000
    IN  IF r < 500 THEN q
        ELSE IF r > 500 THEN q + 1
        ELSE IF tieUp THEN q + 1 ELSE q

\* simple_sentiment labelling the polarity before it is rounded
simple_sentiment_unrounded(text, tieUp) ==
    IF text.empty
    THEN [keys |-> {"polarity", "subjectivity", "label"},
          polarity |-> 0, subjectivity |-> 0, label |-> "neutral"]
    ELSE LET polarity == Round4(text.polarity, tieUp)
             subjectivity == Round4(text.subjectivity, tieUp)
             label == IF text.polarity > 1000000 THEN "positive"
                      ELSE IF text.polarity < -1000000 THEN "negative"
                      ELSE "neutral"
         IN  [keys |-> {"polarity", "subjectivity", "label"},
              polarity |-> polarity, subjectivity |-> subjectivity, label |-> label]

\* text: [empty, polarity, subjectivity], the text's emptiness and what
\* TextBlob(text).sentiment holds for it.  0.1 is 1000 units of 1e-4.
simple_sentiment(text, tieUp) ==
    IF text.empty
    THEN [keys |-> {"polarity", "subjectivity", "label"},
          polarity |-> 0, subjectivity |-> 0, label |-> "neutral"]
    ELSE LET polarity == Round4(text.polarity, tieUp)
             subjectivity == Round4(text.subjectivity, tieUp)
             label == IF polarity > 1000 THEN "positive"
                      ELSE IF polarity < -1000 THEN "negative"
                      ELSE "neutral"
         IN  [keys |-> {"polarity", "subjectivity", "label"},
              polarity |-> polarity, subjectivity |-> subjectivity, label |-> label]

\* raw polarities: the ends of [-1, 1], 0, and a window around each threshold
RawPolarities ==
    {-10000000, 0, 10000000}
    \cup {1000000 + d : d \in -PolWindow..PolWindow}
    \cup {-1000000 + d : d \in -PolWindow..PolWindow}

RawSubjectivities == {0, 3333350, 10000000}

SentimentTexts ==
    {[empty |-> TRUE, polarity |-> 0, subjectivity |-> 0]}
    \cup [empty : {FALSE}, polarity : RawPolarities, subjectivity : RawSubjectivities]

NoSentiment == [keys |-> {}, polarity |-> 0, subjectivity |-> 0, label |-> ""]

----------------------------------------------------------------------------
(* agents/researcher_agent.py: analyze_sentiment_summary *)

\* dict.get(key, default)
Get(d, k, default) == IF k \in d.keys THEN d[k] ELSE default

\* round(total / n, 4) with total in 1e-4 units and n >= 1, in 1e-4 units
RoundDiv(total, n, tieUp) ==
    LET q == total \div n
        r == total % n
    IN  IF 2 * r < n THEN q
        ELSE IF 2 * r > n THEN q + 1
        ELSE IF tieUp THEN q + 1 ELSE q

\* the loop over news_items: <<pos, neg, neu, total_p>> after the first i items
RECURSIVE Tally(_, _)
Tally(items, i) ==
    IF i = 0 THEN <<0, 0, 0, 0>>
    ELSE LET t == Tally(items, i - 1)
             item == items[i]
             lab == Get(Get(item, "sentiment", NoSentiment), "label", "neutral")
             pol == Get(Get(item, "sentiment", NoSentiment), "polarity", 0)
         IN  IF lab = "positive" THEN <<t[1] + 1, t[2], t[3], t[4] + pol>>
             ELSE IF lab = "negative" THEN <<t[1], t[2] + 1, t[3], t[4] + pol>>
             ELSE <<t[1], t[2], t[3] + 1, t[4] + pol>>

Max(a, b) == IF a >= b THEN a ELSE b

\* analyze_sentiment_summary counting as neutral only the label "neutral"
analyze_sentiment_summary_strict(items, tieUp) ==
    IF items = <<>>
    THEN [count |-> 0, positive |-> 0, negative |-> 0, neutral |-> 0, avg_polarity |-> 0]
    ELSE LET t == Tally(items, Len(items))
             n == Cardinality({i \in 1..Len(items) :
                     Get(Get(items[i], "sentiment", NoSentiment), "label", "neutral")
                         = "neutral"})
         IN  [count |-> Len(items), positive |-> t[1], negative |-> t[2],
              neutral |-> n,
              avg_polarity |-> RoundDiv(t[4], Max(1, Len(items)), tieUp)]

analyze_sentiment_summary(items, tieUp) ==
    IF items = <<>>
    THEN [count |-> 0, positive |-> 0, negative |-> 0, neutral |-> 0, avg_polarity |-> 0]
    ELSE LET t == Tally(items, Len(items))
         IN  [count |-> Len(items), positive |-> t[1], negative |-> t[2],
              neutral |-> t[3],
              avg_polarity |-> RoundDiv(t[4], Max(1, Len(items)), tieUp)]

Sentiment(keys, label, polarity) ==
    [keys |-> keys, polarity |-> polarity, subjectivity |-> 0, label |-> label]

NewsItem(keys, title, sentiment) ==
    [keys |-> keys, title |-> title, sentiment |-> sentiment]

\* items as the fetchers build them, and items with an unknown label, without
\* a label, without a polarity and without a sentiment
SummaryItems ==
    { NewsItem({"title", "sentiment"}, 1, Sentiment({"label", "polarity"}, "positive", 5000)),
      NewsItem({"title", "sentiment"}, 2, Sentiment({"label", "polarity"}, "negative", -3000)),
      NewsItem({"title", "sentiment"}, 3, Sentiment({"label", "polarity"}, "neutral", 1)),
      NewsItem({"title", "sentiment"}, 4, Sentiment({"label", "polarity"}, "mixed", 1001)),
      NewsItem({"title", "sentiment"}, 5, Sentiment({"polarity"}, "", 2000)),
      NewsItem({"title", "sentiment"}, 6, Sentiment({"label"}, "positive", 0)),
      NewsItem({"title"}, 7, NoSentiment) }

NoSummary == [count |-> -1, positive |-> -1, negative |-> -1, neutral |-> -1,
              avg_polarity |-> 0]

----------------------------------------------------------------------------
(* utils/fetch_stock_data.py: fetch_stock_data and extract_kpis *)

\* A price is an integer number of 1e-2 units.  A cell of a float column is NaN
\* or a number: a rational in 1e-7 units (root FALSE), or, for a standard
\* deviation, the square root of v / (w * (w - 1)) in 1e-2 units (root TRUE).
\* A KPI is None or a float rounded to 4 decimals, in 1e-4 units.

\* the windows of the two moving averages and of the volatility
MA20Window == 20
MA50Window == 50
VolatilityWindow == 20

NaN == [nan |-> TRUE, v |-> 0, root |-> FALSE]
Num(v) == [nan |-> FALSE, v |-> v, root |-> FALSE]
Root(v) == [nan |-> FALSE, v |-> v, root |-> TRUE]

PyNone == [none |-> TRUE, v |-> 0]
PyFloat(v) == [none |-> FALSE, v |-> v]

\* the rows of a download: Close, High and Low of each trading day
Row(c) == [Close |-> c, High |-> c + 1, Low |-> c - 1]

Patterns == {"flat", "zigzag", "step"}

CloseAt(p, i) ==
    IF p = "flat" THEN 100
    ELSE IF p = "zigzag" THEN 100 + (i % 2)
    ELSE IF i <= 10 THEN 100 ELSE 101

PriceSequences == {[i \in 1..n |-> Row(CloseAt(p, i))] : n \in 0..MaxRows, p \in Patterns}

RECURSIVE SumClose(_, _, _)
\* the sum of Close over rows lo..hi
SumClose(rows, lo, hi) ==
    IF lo > hi THEN 0 ELSE rows[hi].Close + SumClose(rows, lo, hi - 1)

RECURSIVE SumCloseSq(_, _, _)
\* the sum of Close squared over rows lo..hi
SumCloseSq(rows, lo, hi) ==
    IF lo > hi THEN 0 ELSE rows[hi].Close * rows[hi].Close + SumCloseSq(rows, lo, hi - 1)

\* a rolling mean that gives 0.0 where the window is not yet full
RollingMeanZeroFilled(rows, w, i) ==
    IF i < w THEN Num(0) ELSE Num((SumClose(rows, i - w + 1, i) * 100000) \div w)

\* df["Close"].rolling(window=w).mean() at row i, rows counted from 1:
\* min_periods is the window, so NaN until the window holds w rows
RollingMean(rows, w, i) ==
    IF i < w THEN NaN ELSE Num((SumClose(rows, i - w + 1, i) * 100000) \div w)

\* df["Close"].rolling(window=w).std() at row i: the sample standard deviation
\* (ddof 1) of the w closes, sqrt((w * sum of squares - square of sum) / (w * (w - 1)))
RollingStd(rows, w, i) ==
    IF i < w THEN NaN
    ELSE Root(w * SumCloseSq(rows, i - w + 1, i)
              - SumClose(rows, i - w + 1, i) * SumClose(rows, i - w + 1, i))

\* df is None
NoneFrame == [none |-> TRUE, rows |-> <<>>, MA20 |-> <<>>, MA50 |-> <<>>,
              Volatility |-> <<>>]

\* pd.DataFrame(): no rows
EmptyFrame == [none |-> FALSE, rows |-> <<>>, MA20 |-> <<>>, MA50 |-> <<>>,
               Volatility |-> <<>>]

\* fetch_stock_data, given what yf.download returned
fetch_stock_data(sym, rows) ==
    IF Len(rows) = 0
    THEN [raised |-> TRUE, msg |-> <<"No stock data found for ", sym>>, df |-> NoneFrame]
    ELSE [raised |-> FALSE, msg |-> <<>>,
          df |-> [none |-> FALSE, rows |-> rows,
                  MA20 |-> [i \in 1..Len(rows) |-> RollingMean(rows, MA20Window, i)],
                  MA50 |-> [i \in 1..Len(rows) |-> RollingMean(rows, MA50Window, i)],
                  Volatility |->
                      [i \in 1..Len(rows) |-> RollingStd(rows, VolatilityWindow, i)]]]

\* round(sqrt(v / (w * (w - 1))), 4) in 1e-4 units, the root taken in 1e-2 units:
\* the r nearest to sqrt(10000 * v / (w * (w - 1)))
RoundRoot4(v, w) ==
    CHOOSE r \in 0..(6 * v + 1) :
        /\ (2 * r - 1) * (2 * r - 1) * w * (w - 1) <= 40000 * v \/ r = 0
        /\ 40000 * v < (2 * r + 1) * (2 * r + 1) * w * (w - 1)

\* safe_scalar: None for NaN, else the float rounded to 4 decimals
safe_scalar(val, tieUp) ==
    IF val.nan THEN PyNone
    ELSE IF val.root THEN PyFloat(RoundRoot4(val.v, VolatilityWindow))
    ELSE PyFloat(Round4(val.v, tieUp))

AllNoneKpis ==
    [current_price |-> PyNone, day_high |-> PyNone, day_low |-> PyNone, ma20 |-> PyNone,
     ma50 |-> PyNone, volatility |-> PyNone]

KpisOfLatest(df, tieUp) ==
    LET n == Len(df.rows)
        latest == df.rows[n]
    IN  [current_price |-> safe_scalar(Num(latest.Close * 100000), tieUp),
         day_high |-> safe_scalar(Num(latest.High * 100000), tieUp),
         day_low |-> safe_scalar(Num(latest.Low * 100000), tieUp),
         ma20 |-> safe_scalar(df.MA20[n], tieUp),
         ma50 |-> safe_scalar(df.MA50[n], tieUp),
         volatility |-> safe_scalar(df.Volatility[n], tieUp)]

\* extract_kpis without its guard: df.iloc[-1] of no rows raises
extract_kpis_unguarded(df, tieUp) ==
    IF df.none THEN [raised |-> TRUE, msg |-> <<"AttributeError">>, kpis |-> AllNoneKpis]
    ELSE IF Len(df.rows) = 0
         THEN [raised |-> TRUE, msg |-> <<"IndexError">>, kpis |-> AllNoneKpis]
         ELSE [raised |-> FALSE, msg |-> <<>>, kpis |-> KpisOfLatest(df, tieUp)]

\* extract_kpis
extract_kpis(df, tieUp) ==
    IF df.none \/ Len(df.rows) = 0
    THEN [raised |-> FALSE, msg |-> <<>>, kpis |-> AllNoneKpis]
    ELSE [raised |-> FALSE, msg |-> <<>>, kpis |-> KpisOfLatest(df, tieUp)]

----------------------------------------------------------------------------
(* Values of the pipeline *)

Symbols == {"TCS.NS", "INFY.NS"}

\* report texts: "1. A" + newline + "x", "8. B", " 2." + em dash, a euro sign, and
\* "9." + newline + "10." + newline + "1.5"
ReportTexts ==
    { <<49, 46, 32, 65, 10, 120>>, <<56, 46, 32, 66>>, <<32, 50, 46, 8212>>, <<8364>>,
      <<57, 46, 10, 49, 48, 46, 10, 49, 46, 53>> }

\* f"data/raw/{symbol}_chart.png"
ChartFile(sym) == [dir |-> "data/raw", symbol |-> sym, ts |-> -1]

\* f"{self.output_dir}/REPORT_{stock_symbol}_{timestamp}.pdf", timestamp to the second
ReportFile(sym, t) == [dir |-> "data/reports", symbol |-> sym, ts |-> t]

\* None
NoPath == [dir |-> "", symbol |-> "", ts |-> -1]

NoOutcome == [called |-> FALSE, ok |-> FALSE, items |-> <<>>]

NoAnalysis == [order |-> <<>>, kpis |-> "", fundamentals |-> "", chart_path |-> NoPath]

NoGen == [kind |-> "", status |-> "", wellformed |-> FALSE]

NoChartEnv == [exists |-> FALSE, loadable |-> FALSE]

NoDoc == [title |-> "", stamp |-> -1, chart |-> "", body |-> <<>>]

NoResult ==
    [keys |-> {}, kpis |-> "", chart_path |-> NoPath, news_items |-> <<>>,
     sentiment_summary |-> NoSummary, report_text |-> <<>>, pdf_path |-> NoPath,
     error |-> <<>>]

\* the entries of a feed or the articles of a NewsAPI payload: a title and what
\* TextBlob holds for the text built from it
EntryA == [title |-> 1, text |-> [empty |-> FALSE, polarity |-> 5000000, subjectivity |-> 0]]
EntryB == [title |-> 2, text |-> [empty |-> FALSE, polarity |-> -1200000, subjectivity |-> 0]]

\* the feeds or payloads a news source answers with
Feeds == {<<>>, <<EntryA>>, <<EntryB, EntryA>>, <<EntryA, EntryB, EntryA>>}

\* what a fetch meets: a feed or payload, or an exception with its message
FetchOk(feed) == [ok |-> TRUE, feed |-> feed, msg |-> <<>>]
FetchRaise(msg) == [ok |-> FALSE, feed |-> <<>>, msg |-> msg]

\* requests.get raising, raise_for_status raising, resp.json() / data.get raising
NewsApiOutcomes ==
    {FetchOk(f) : f \in Feeds}
    \cup {FetchRaise(<<"ConnectionError">>), FetchRaise(<<"401 Client Error">>),
          FetchRaise(<<"JSONDecodeError">>)}

RssOutcomes == {FetchOk(f) : f \in Feeds} \cup {FetchRaise(<<"URLError">>)}

\* the generation service: no answer, or an answer with a status and, under 200,
\* a body that holds choices[0].message.content or does not
GenBehaviours ==
    { [kind |-> "network", status |-> "", wellformed |-> FALSE],
      [kind |-> "response", status |-> "500", wellformed |-> FALSE],
      [kind |-> "response", status |-> "200", wellformed |-> FALSE],
      [kind |-> "response", status |-> "200", wellformed |-> TRUE] }

\* what analyze_stock meets: price rows or none or a failing download, and
\* fundamentals or none
StockOutcomes ==
    [prices : {"rows"}, info : {"info", "none"}]
    \cup [prices : {"empty", "error"}, info : {"none"}]

Min(a, b) == IF a <= b THEN a ELSE b

----------------------------------------------------------------------------
(* utils/pdf_generator.py: what generate_pdf lays out *)

\* the characters str.strip() removes
Whitespace == {9, 10, 11, 12, 13, 28, 29, 30, 31, 32, 133, 160}

RECURSIVE LStrip(_)
LStrip(s) == IF s # <<>> /\ Head(s) \in Whitespace THEN LStrip(Tail(s)) ELSE s

RECURSIVE RStrip(_)
RStrip(s) ==
    IF s # <<>> /\ Last(s) \in Whitespace THEN RStrip(SubSeq(s, 1, Len(s) - 1)) ELSE s

Strip(s) == RStrip(LStrip(s))

StartsWith(s, p) == Len(s) >= Len(p) /\ SubSeq(s, 1, Len(p)) = p

\* ("1.", "2.", "3.", "4.", "5.", "6.", "7.")
HeadingPrefixes == {<<d, 46>> : d \in 49..55}

IsHeading(line) == \E p \in HeadingPrefixes : StartsWith(Strip(line), p)

\* str.split("\n")
RECURSIVE SplitLines(_)
SplitLines(text) ==
    IF \A i \in 1..Len(text) : text[i] # 10 THEN <<text>>
    ELSE LET n == CHOOSE i \in 1..Len(text) :
                     text[i] = 10 /\ \A j \in 1..(i - 1) : text[j] # 10
         IN  <<SubSeq(text, 1, n - 1)>> \o SplitLines(SubSeq(text, n + 1, Len(text)))

\* the report body: each line of the cleaned text with the style it is laid out in
RenderBody(text) ==
    LET lines == SplitLines(clean_text(text))
    IN  [i \in 1..Len(lines) |->
            [style |-> IF IsHeading(lines[i]) THEN "heading" ELSE "body",
             text |-> clean_text(lines[i])]]

\* FPDF encodes what it lays out as Latin-1 and raises UnicodeEncodeError otherwise
Latin1(text) == \A i \in 1..Len(text) : text[i] <= 255

Encodable(body) == \A i \in 1..Len(body) : Latin1(body[i].text)

\* the chart block holding the notice whenever there is no image to show
ChartBlockNoticeIfMissing(path, exists, loadable) ==
    IF path # NoPath /\ exists /\ loadable THEN "image" ELSE "Chart could not be loaded."

\* the chart block: the image, the notice of the except branch, or nothing
ChartBlock(path, exists, loadable) ==
    IF path # NoPath /\ exists
    THEN (IF loadable THEN "image" ELSE "Chart could not be loaded.")
    ELSE "none"

----------------------------------------------------------------------------
(* agents/researcher_agent.py: the fetchers and gather_news *)

\* the list both fetchers build from the first max_articles entries
FetchedItems(feed, max) ==
    [i \in 1..Min(Len(feed), max) |->
        NewsItem({"title", "sentiment"}, feed[i].title, simple_sentiment(feed[i].text, TRUE))]

\* "if not NEWSAPI_KEY: raise RuntimeError(...)"
NoKeyMsg == <<"NEWSAPI_KEY not found in environment.">>

\* f"Failed to fetch news (tried {mode}). Error: {e}"
FailedToFetchMsg(m, e) == <<"Failed to fetch news (tried ", m, "). Error: ">> \o e

\* "mode = self.source; if mode == 'auto': mode = 'newsapi' if NEWSAPI_KEY else 'rss'"
ModeOf(src) == IF src = "auto" THEN (IF key THEN "newsapi" ELSE "rss") ELSE src

\* the except branch giving up without trying the feed
gather_except_giveup(out, m, e) ==
    [raised |-> TRUE, value |-> <<>>, msg |-> FailedToFetchMsg(m, e)]

\* the except branch returning an empty list when the feed fails too
gather_except_empty(out, m, e) ==
    IF out.ok
    THEN [raised |-> FALSE, value |-> FetchedItems(out.feed, max_articles), msg |-> <<>>]
    ELSE [raised |-> FALSE, value |-> <<>>, msg |-> <<>>]

\* gather_news's "except Exception as e": what it returns or raises, given what the
\* second fetch met
gather_except(out, m, e) ==
    IF out.ok
    THEN [raised |-> FALSE, value |-> FetchedItems(out.feed, max_articles), msg |-> <<>>]
    ELSE [raised |-> TRUE, value |-> <<>>, msg |-> FailedToFetchMsg(m, e)]

----------------------------------------------------------------------------
(* orchestrator.py: what run does with what a stage gives back *)

\* the except branch returning what the finished stages produced beside the error
RunExceptPartial(msg) ==
    [NoResult EXCEPT !.keys = {"error", "news_items", "sentiment_summary"},
                     !.error = msg, !.news_items = news_items,
                     !.sentiment_summary = sentiment_summary]

\* "except Exception as e: return {"error": str(e)}"
RunExcept(msg) == [NoResult EXCEPT !.keys = {"error"}, !.error = msg]

\* the dict run returns at lines 65-72
RunSuccess(path) ==
    [keys |-> {"kpis", "chart_path", "news_items", "sentiment_summary", "report_text",
               "pdf_path"},
     kpis |-> kpis, chart_path |-> chart_path, news_items |-> news_items,
     sentiment_summary |-> sentiment_summary, report_text |-> report_text,
     pdf_path |-> path, error |-> <<>>]

\* "kpis, chart_path = <dict>": iterating a dict yields its keys in insertion order
UnpackTwo(d) ==
    IF Len(d.order) = 2 THEN [ok |-> TRUE, first |-> d.order[1], second |-> d.order[2],
                              msg |-> <<>>]
    ELSE IF Len(d.order) > 2
         THEN [ok |-> FALSE, first |-> "", second |-> "",
               msg |-> <<"too many values to unpack (expected 2)">>]
         ELSE [ok |-> FALSE, first |-> "", second |-> "",
               msg |-> <<"not enough values to unpack (expected 2)">>]

\* the dict analyze_stock returns at lines 31-36
AnalysisOf(sym, info) ==
    [order |-> <<"dataframe", "kpis", "fundamentals", "chart_path">>,
     kpis |-> "kpis", fundamentals |-> info, chart_path |-> ChartFile(sym)]

\* a run that logs a failure of the news stage and carries on with the next stage
RaiseAndCarryOn(msg) ==
    /\ exc' = msg
    /\ IF entry = "run"
       THEN /\ pc' = IF pc = "FetchingNews" THEN "ComputingIndicators" ELSE "Failed"
            /\ result' = RunExcept(msg)
            /\ propagated' = FALSE
       ELSE /\ pc' = "Raised"
            /\ result' = result
            /\ propagated' = TRUE

\* an exception reaches the method the client called: run catches it and returns
\* the error dict, any other method lets it through
Raise(msg) ==
    /\ exc' = msg
    /\ IF entry = "run"
       THEN /\ pc' = "Failed"
            /\ result' = RunExcept(msg)
            /\ propagated' = FALSE
       ELSE /\ pc' = "Raised"
            /\ result' = result
            /\ propagated' = TRUE

----------------------------------------------------------------------------
(* The client's calls *)

Callable == pc \in {"Idle", "Done", "Failed", "Raised"}

\* a call begins: the locals of the last call are gone
Begin(e, stage, sym, src, max, g, cp, text) ==
    /\ Callable
    /\ entry' = e
    /\ pc' = stage
    /\ symbol' = sym
    /\ source' = src
    /\ max_articles' = max
    /\ gen' = g
    /\ gpc' = IF stage = "FetchingNews" THEN "primary" ELSE "none"
    /\ mode' = IF stage = "FetchingNews" THEN ModeOf(src) ELSE ""
    /\ primaryErr' = <<>>
    /\ rssOut' = NoOutcome
    /\ news_items' = <<>>
    /\ sentiment_summary' = NoSummary
    /\ analysis' = NoAnalysis
    /\ kpis' = ""
    /\ chart_path' = cp
    /\ report_text' = text
    /\ pdf_path' = NoPath
    /\ result' = NoResult
    /\ exc' = <<>>
    /\ propagated' = FALSE
    /\ chartEnv' = NoChartEnv
    /\ doc' = NoDoc
    /\ trace' = <<stage>>
    /\ invoked' = IF e = "run" THEN <<"run", "gather_news">> ELSE <<e>>
    /\ faults' = {}
    /\ UNCHANGED <<key, files, clock, pureVars>>

\* Orchestrator().run(stock_symbol, start_date, end_date): the researcher is
\* ResearcherAgent(max_articles=8), its source "auto"; run's first step calls gather_news
CallRun ==
    \E sym \in Symbols : \E g \in GenBehaviours :
        Begin("run", "FetchingNews", sym, "auto", 8, g, NoPath, <<>>)

\* ResearcherAgent(source, max_articles).gather_news(query)
CallGatherNews ==
    \E src \in {"newsapi", "rss", "auto"} :
        Begin("gather_news", "FetchingNews", "TCS.NS", src, 10, NoGen, NoPath, <<>>)

\* ReportWriterAgent().write_report(...)
CallWriteReport ==
    \E g \in GenBehaviours :
        Begin("write_report", "ComposingReport", "TCS.NS", "", 0, g, NoPath, <<>>)

\* PDFGenerator().generate_pdf(report_text, chart_path, stock_symbol)
CallGeneratePdf ==
    \E sym \in Symbols : \E text \in ReportTexts : \E cp \in {NoPath, ChartFile(sym)} :
        Begin("generate_pdf", "RenderingDocument", sym, "", 0, NoGen, cp, text)

----------------------------------------------------------------------------
(* agents/researcher_agent.py: gather_news, step by step *)

\* gather_news returns items; in run, line 40 follows and the next stage begins
GatherReturns(items, tieUp) ==
    /\ news_items' = items
    /\ IF entry = "run"
       THEN /\ sentiment_summary' = analyze_sentiment_summary(items, tieUp)
            /\ pc' = "ComputingIndicators"
            /\ trace' = Append(trace, "ComputingIndicators")
       ELSE /\ sentiment_summary' = sentiment_summary
            /\ pc' = "Done"
            /\ trace' = trace
    /\ UNCHANGED outVars

\* run invokes a method of an agent; called by the client, the method is the call
Invoke(method) == IF entry = "run" THEN Append(invoked, method) ELSE invoked

GatherRaises(msg) ==
    /\ Raise(msg)
    /\ UNCHANGED <<news_items, sentiment_summary, trace>>

FetchName(m) == IF m = "newsapi" THEN "_fetch_news_newsapi" ELSE "_fetch_news_rss"

AfterReturn == IF entry = "run" THEN <<"analyze_sentiment_summary">> ELSE <<>>

RssOutcome(out) ==
    [called |-> TRUE, ok |-> out.ok,
     items |-> IF out.ok THEN FetchedItems(out.feed, max_articles) ELSE <<>>]

\* the try block: the fetch the mode names
FetchPrimary ==
    /\ pc = "FetchingNews"
    /\ gpc = "primary"
    /\ \E out \in (IF mode = "newsapi"
                   THEN (IF key THEN NewsApiOutcomes ELSE {FetchRaise(NoKeyMsg)})
                   ELSE RssOutcomes) :
       \E tieUp \in BOOLEAN :
          /\ rssOut' = IF mode = "newsapi" THEN rssOut ELSE RssOutcome(out)
          /\ faults' = IF out.ok \/ out.msg = NoKeyMsg THEN faults ELSE faults \cup {mode}
          /\ IF out.ok
             THEN /\ GatherReturns(FetchedItems(out.feed, max_articles), tieUp)
                  /\ invoked' = invoked \o <<FetchName(mode)>> \o AfterReturn
                  /\ primaryErr' = primaryErr
                  /\ gpc' = "returned"
             ELSE /\ primaryErr' = out.msg
                  /\ invoked' = Append(invoked, FetchName(mode))
                  /\ gpc' = "fallback"
                  /\ UNCHANGED <<pc, news_items, sentiment_summary, trace, outVars>>
    /\ UNCHANGED <<key, files, clock, callVars, mode, analysis, kpis, chart_path,
                   report_text, pdf_path, pdfVars, pureVars>>

\* the except block: the feed, once more or for the first time
FetchFallback ==
    /\ pc = "FetchingNews"
    /\ gpc = "fallback"
    /\ \E out \in RssOutcomes : \E tieUp \in BOOLEAN :
          LET g == gather_except(out, mode, primaryErr)
          IN  /\ rssOut' = RssOutcome(out)
              /\ faults' = IF out.ok THEN faults ELSE faults \cup {"rss"}
              /\ gpc' = IF g.raised THEN "raised" ELSE "returned"
              /\ IF g.raised
                 THEN /\ GatherRaises(g.msg)
                      /\ invoked' = Append(invoked, "_fetch_news_rss")
                 ELSE /\ GatherReturns(g.value, tieUp)
                      /\ invoked' = invoked \o <<"_fetch_news_rss">> \o AfterReturn
    /\ UNCHANGED <<key, files, clock, callVars, mode, primaryErr, analysis, kpis,
                   chart_path, report_text, pdf_path, pdfVars, pureVars>>

----------------------------------------------------------------------------
(* orchestrator.py line 43 and agents/data_analyst_agent.py: analyze_stock *)

AnalyzeStock ==
    /\ pc = "ComputingIndicators"
    /\ invoked' = Append(invoked, "analyze_stock")
    /\ \E out \in StockOutcomes :
          IF out.prices = "rows"
          THEN LET a == AnalysisOf(symbol, out.info)
                   u == UnpackTwo(a)
               IN  /\ analysis' = a
                   /\ faults' = faults
                   /\ IF u.ok
                      THEN /\ kpis' = u.first
                           /\ chart_path' = u.second
                           /\ pc' = "ComposingReport"
                           /\ trace' = Append(trace, "ComposingReport")
                           /\ UNCHANGED outVars
                      ELSE /\ Raise(u.msg)
                           /\ UNCHANGED <<kpis, chart_path, trace>>
          ELSE /\ Raise(IF out.prices = "empty"
                        THEN <<"No stock data found for ", symbol>>
                        ELSE <<"download failed">>)
               /\ faults' = faults \cup {"prices"}
               /\ UNCHANGED <<analysis, kpis, chart_path, trace>>
    /\ UNCHANGED <<key, files, clock, callVars, newsVars, news_items, sentiment_summary,
                   report_text, pdf_path, pdfVars, pureVars>>

----------------------------------------------------------------------------
(* agents/report_writer_agent.py: write_report *)

WriteReport ==
    /\ pc = "ComposingReport"
    /\ invoked' = Invoke("write_report")
    /\ IF gen.kind = "response" /\ gen.status = "200" /\ gen.wellformed
       THEN /\ report_text' \in ReportTexts
            /\ pc' = IF entry = "run" THEN "RenderingDocument" ELSE "Done"
            /\ trace' = IF entry = "run" THEN Append(trace, "RenderingDocument") ELSE trace
            /\ faults' = faults
            /\ UNCHANGED outVars
       ELSE /\ Raise(IF gen.kind = "network" THEN <<"ConnectionError">>
                     ELSE IF gen.status # "200"
                          THEN <<"OpenRouter API error ", gen.status, ": ", "response.text">>
                          ELSE <<"KeyError: 'choices'">>)
            /\ faults' = faults \cup {"generation"}
            /\ UNCHANGED <<report_text, trace>>
    /\ UNCHANGED <<key, files, clock, callVars, newsVars, news_items, sentiment_summary,
                   analysis, kpis, chart_path, pdf_path, pdfVars, pureVars>>

----------------------------------------------------------------------------
(* utils/pdf_generator.py: generate_pdf *)

GeneratePdf ==
    /\ pc = "RenderingDocument"
    /\ invoked' = Invoke("generate_pdf")
    /\ \E t1 \in clock..MaxClock : \E t2 \in t1..MaxClock :
       \E exists \in (IF chart_path # NoPath THEN BOOLEAN ELSE {FALSE}) :
       \E loadable \in (IF exists THEN BOOLEAN ELSE {FALSE}) :
       \E writable \in (IF Encodable(RenderBody(report_text)) THEN BOOLEAN ELSE {TRUE}) :
          LET body == RenderBody(report_text)
              filename == ReportFile(symbol, t2)
          IN  /\ clock' = t2
              /\ chartEnv' = [exists |-> exists, loadable |-> loadable]
              /\ IF Encodable(body) /\ writable
                 THEN /\ doc' = [title |-> symbol, stamp |-> t1 \div 60,
                                 chart |-> ChartBlock(chart_path, exists, loadable),
                                 body |-> body]
                      /\ files' = files \cup {filename}
                      /\ pdf_path' = filename
                      /\ pc' = "Done"
                      /\ trace' = trace
                      /\ result' = IF entry = "run" THEN RunSuccess(filename) ELSE result
                      /\ faults' = faults
                      /\ UNCHANGED <<exc, propagated>>
                 ELSE /\ Raise(IF Encodable(body) THEN <<"OSError">>
                               ELSE <<"UnicodeEncodeError">>)
                      /\ faults' = faults \cup {"pdf"}
                      /\ UNCHANGED <<doc, files, pdf_path, trace>>
    /\ UNCHANGED <<key, callVars, newsVars, news_items, sentiment_summary, analysis, kpis,
                   chart_path, report_text, pureVars>>

----------------------------------------------------------------------------
(* The pipeline and its parts, called by a client again and again *)

PipeIdle ==
    /\ files = {} /\ clock = 0 /\ entry = "none" /\ pc = "Idle" /\ symbol = ""
    /\ source = "" /\ max_articles = 0 /\ gen = NoGen /\ gpc = "none" /\ mode = ""
    /\ primaryErr = <<>> /\ rssOut = NoOutcome /\ news_items = <<>>
    /\ sentiment_summary = NoSummary /\ analysis = NoAnalysis /\ kpis = ""
    /\ chart_path = NoPath /\ report_text = <<>> /\ pdf_path = NoPath
    /\ result = NoResult /\ exc = <<>> /\ propagated = FALSE /\ chartEnv = NoChartEnv
    /\ doc = NoDoc /\ trace = <<>> /\ invoked = <<>> /\ faults = {}

----------------------------------------------------------------------------
(* The harnesses of the pure functions *)

CleanIdle == ct_hist = <<>>
SentIdle == ss_text = [empty |-> TRUE, polarity |-> 0, subjectivity |-> 0]
            /\ ss_out = NoSentiment /\ ss_done = FALSE
SumIdle == sm_items = <<>> /\ sm_out = NoSummary /\ sm_done = FALSE
IndIdle == ind_entry = "none" /\ ind_pc = "idle" /\ ind_rows = <<>> /\ ind_df = NoneFrame
           /\ ind_kpis = AllNoneKpis /\ ind_exc = <<>>

\* a caller applies clean_text to a text, and again to what it returned
ApplyCleanText ==
    /\ ct_hist # <<>>
    /\ Len(ct_hist) <= CleanApplications
    /\ ct_hist' = Append(ct_hist, clean_text(Last(ct_hist)))
    /\ UNCHANGED <<sentVars, sumVars, indVars, pipeVars>>

PipeOff == key = FALSE /\ PipeIdle

InitClean ==
    ct_hist \in {<<t>> : t \in CleanInputs} /\ SentIdle /\ SumIdle /\ IndIdle /\ PipeOff
NextClean == ApplyCleanText
SpecClean == InitClean /\ [][NextClean]_vars

\* a caller scores one text
CallSimpleSentiment ==
    /\ ~ss_done
    /\ \E tieUp \in BOOLEAN : ss_out' = simple_sentiment(ss_text, tieUp)
    /\ ss_done' = TRUE
    /\ UNCHANGED <<ss_text, cleanVars, sumVars, indVars, pipeVars>>

InitSentiment ==
    /\ ss_text \in SentimentTexts /\ ss_out = NoSentiment /\ ss_done = FALSE
    /\ CleanIdle /\ SumIdle /\ IndIdle /\ PipeOff
NextSentiment == CallSimpleSentiment
SpecSentiment == InitSentiment /\ [][NextSentiment]_vars

\* a caller summarises one list of news items
CallAnalyzeSentimentSummary ==
    /\ ~sm_done
    /\ \E tieUp \in BOOLEAN : sm_out' = analyze_sentiment_summary(sm_items, tieUp)
    /\ sm_done' = TRUE
    /\ UNCHANGED <<sm_items, cleanVars, sentVars, indVars, pipeVars>>

InitSummary ==
    /\ sm_items \in SeqsUpTo(SummaryItems, MaxItems) /\ sm_out = NoSummary /\ sm_done = FALSE
    /\ CleanIdle /\ SentIdle /\ IndIdle /\ PipeOff
NextSummary == CallAnalyzeSentimentSummary
SpecSummary == InitSummary /\ [][NextSummary]_vars

\* analyze_stock line 25: the download arrives and fetch_stock_data adds the columns
FetchStockData ==
    /\ ind_pc = "fetch"
    /\ LET f == fetch_stock_data("TCS.NS", ind_rows)
       IN  /\ ind_df' = f.df
           /\ ind_exc' = f.msg
           /\ ind_pc' = IF f.raised THEN "raised" ELSE "extract"
    /\ UNCHANGED <<ind_entry, ind_rows, ind_kpis, cleanVars, sentVars, sumVars, pipeVars>>

\* analyze_stock line 26, or a caller handing extract_kpis a frame of its own
ExtractKpis ==
    /\ ind_pc = "extract"
    /\ \E tieUp \in BOOLEAN :
          LET k == extract_kpis(ind_df, tieUp)
          IN  /\ ind_kpis' = k.kpis
              /\ ind_exc' = k.msg
              /\ ind_pc' = IF k.raised THEN "raised" ELSE "done"
    /\ UNCHANGED <<ind_entry, ind_rows, ind_df, cleanVars, sentVars, sumVars, pipeVars>>

InitIndicators ==
    /\ \/ /\ ind_entry = "analyze_stock"
          /\ ind_pc = "fetch"
          /\ ind_rows \in PriceSequences
          /\ ind_df = NoneFrame
       \/ /\ ind_entry = "extract_kpis"
          /\ ind_pc = "extract"
          /\ ind_rows = <<>>
          /\ ind_df \in {NoneFrame, EmptyFrame}
    /\ ind_kpis = AllNoneKpis /\ ind_exc = <<>>
    /\ CleanIdle /\ SentIdle /\ SumIdle /\ PipeOff
NextIndicators == FetchStockData \/ ExtractKpis
SpecIndicators == InitIndicators /\ [][NextIndicators]_vars

Init == key \in BOOLEAN /\ PipeIdle /\ CleanIdle /\ SentIdle /\ SumIdle /\ IndIdle

Next ==
    \/ CallRun
    \/ CallGatherNews
    \/ CallWriteReport
    \/ CallGeneratePdf
    \/ FetchPrimary
    \/ FetchFallback
    \/ AnalyzeStock
    \/ WriteReport
    \/ GeneratePdf

Spec == Init /\ [][Next]_vars

----------------------------------------------------------------------------
(* C1 *)

RunOver == entry = "run" /\ pc \in {"Done", "Failed"}

GenSucceeds == gen.kind = "response" /\ gen.status = "200" /\ gen.wellformed

\* C1: a run in which no external collaborator fails passes through FetchingNews,
\* ComputingIndicators, ComposingReport and RenderingDocument in that order, ends in
\* Done and returns a record with kpis, fundamentals, chart_path, news_items,
\* sentiment_summary, report_text and the document path, and no error.
C1_CleanRunSucceeds ==
    (RunOver /\ faults = {} /\ GenSucceeds) =>
        /\ pc = "Done"
        /\ trace = <<"FetchingNews", "ComputingIndicators", "ComposingReport",
                     "RenderingDocument">>
        /\ {"kpis", "fundamentals", "chart_path", "news_items", "sentiment_summary",
            "report_text", "pdf_path"} \subseteq result.keys
        /\ "error" \notin result.keys

----------------------------------------------------------------------------
(* C2 *)

\* C2: when a stage run invokes raises, run lets nothing through: the pipeline is
\* Failed and the record returned has the one field error, the exception's message;
\* no record holds an error beside anything else.
C2_RunReturnsErrorOnly ==
    entry = "run" =>
        /\ ~propagated
        /\ (exc # <<>> =>
              pc = "Failed" /\ result.keys = {"error"} /\ result.error = exc)
        /\ (pc = "Failed" => exc # <<>>)
        /\ ("error" \in result.keys => result.keys = {"error"})

C2_Witness ==
    /\ entry = "run"
    /\ pc = "Failed"
    /\ Len(news_items) = 3
    /\ sentiment_summary.count = 3
    /\ "analyze_stock" \in Range(invoked)
    /\ result.keys = {"error"}
    /\ result.error = exc

----------------------------------------------------------------------------
(* C3 *)

\* C3: in a run where the news and the indicator stage succeed and the generation
\* service answers with a status other than 200, the record returned is an error
\* record whose message holds that status, and generate_pdf is never invoked.
C3_Non200StatusInError ==
    (/\ RunOver
     /\ gpc = "returned"
     /\ analysis # NoAnalysis
     /\ gen.kind = "response"
     /\ gen.status # "200") =>
        /\ result.keys = {"error"}
        /\ gen.status \in Range(result.error)
        /\ "generate_pdf" \notin Range(invoked)

----------------------------------------------------------------------------
(* C4 *)

\* C4: when the key is absent or the keyed call raised, and the feed then returns a
\* list, gather_news returns exactly that list, in that order, and raises nothing.
C4_FallbackListReturned ==
    (/\ gpc \in {"returned", "raised"}
     /\ ~key \/ "newsapi" \in faults
     /\ rssOut.called
     /\ rssOut.ok) =>
        /\ gpc = "returned"
        /\ news_items = rssOut.items
        /\ (entry = "gather_news" => pc = "Done" /\ exc = <<>> /\ ~propagated)

C4_Witness ==
    /\ entry = "gather_news"
    /\ pc = "Done"
    /\ key
    /\ primaryErr = <<"ConnectionError">>
    /\ "newsapi" \in faults
    /\ Len(news_items) = 3
    /\ news_items = rssOut.items
    /\ invoked = <<"gather_news", "_fetch_news_newsapi", "_fetch_news_rss">>

----------------------------------------------------------------------------
(* C5 *)

\* C5: when the first fetch and the fallback both fail, gather_news raises an error
\* whose message holds the name of the source tried and the cause; it does not
\* return a list, and run returns that error as an error record.
C5_BothFailRaises ==
    (/\ gpc \in {"returned", "raised"}
     /\ primaryErr # <<>>
     /\ ~rssOut.ok) =>
        /\ gpc = "raised"
        /\ news_items = <<>>
        /\ exc = <<"Failed to fetch news (tried ", mode, "). Error: ">> \o primaryErr
        /\ (entry = "run" =>
              pc = "Failed" /\ result.keys = {"error"} /\ result.error = exc)
        /\ (entry = "gather_news" => pc = "Raised" /\ propagated)

C5_Witness ==
    /\ entry = "run"
    /\ pc = "Failed"
    /\ gpc = "raised"
    /\ mode = "newsapi"
    /\ primaryErr = <<"401 Client Error">>
    /\ faults = {"newsapi", "rss"}
    /\ result.error = <<"Failed to fetch news (tried ", "newsapi", "). Error: ",
                        "401 Client Error">>

----------------------------------------------------------------------------
(* C6 *)

\* C6: for every list of news items, the empty list and items without a sentiment
\* or a label included, the summary has positive + negative + neutral = count =
\* len(items), and for the empty list every count and avg_polarity are 0.
C6_CountsAddUp ==
    sm_done =>
        /\ sm_out.positive + sm_out.negative + sm_out.neutral = sm_out.count
        /\ sm_out.count = Len(sm_items)
        /\ (sm_items = <<>> =>
              sm_out = [count |-> 0, positive |-> 0, negative |-> 0, neutral |-> 0,
                        avg_polarity |-> 0])

C6_Witness ==
    /\ sm_done
    /\ Len(sm_items) = MaxItems
    /\ \E i \in 1..Len(sm_items) : "sentiment" \notin sm_items[i].keys
    /\ \E i \in 1..Len(sm_items) :
          /\ "sentiment" \in sm_items[i].keys
          /\ "label" \notin sm_items[i].sentiment.keys
    /\ sm_out.neutral >= 2

----------------------------------------------------------------------------
(* C7 *)

\* the label the thresholds give a polarity p, in units where 0.1 is tenth
ThresholdLabel(p, tenth) ==
    IF p > tenth THEN "positive" ELSE IF p < -tenth THEN "negative" ELSE "neutral"

\* C7 as stated: the label is positive if p > 0.1, negative if p < -0.1 and neutral
\* otherwise, for the polarity p the scorer produces, so that 0.1000001 is positive
\* and -0.1000001 negative.
C7_LabelOfScorerPolarity ==
    (ss_done /\ ~ss_text.empty) =>
        ss_out.label = ThresholdLabel(ss_text.polarity, 1000000)

\* C7 amended: the label is positive if p > 0.1, negative if p < -0.1 and neutral
\* otherwise, for p the polarity rounded to 4 decimals that the result reports;
\* 0.1, -0.1, 0.1000001 and -0.1000001 all round to +-0.1 and are neutral.
C7_LabelOfRoundedPolarity ==
    ss_done =>
        /\ ss_out.label = ThresholdLabel(ss_out.polarity, 1000)
        /\ (~ss_text.empty /\ ss_text.polarity \in {1000000, 1000001, -1000000, -1000001}
               => ss_out.label = "neutral")
        /\ (~ss_text.empty /\ ss_text.polarity > 1000500 => ss_out.label = "positive")
        /\ (~ss_text.empty /\ ss_text.polarity < -1000500 => ss_out.label = "negative")

C7_Witness ==
    ss_done /\ ~ss_text.empty /\ ss_text.polarity = 1000001 /\ ss_out.polarity = 1000

----------------------------------------------------------------------------
(* C8 *)

Idempotent == \A i \in 2..(Len(ct_hist) - 1) : ct_hist[i + 1] = ct_hist[i]

\* C8 as stated: clean_text(clean_text(s)) = clean_text(s) for every s, and
\* "café—test" maps to "cafe-test", which a second application leaves unchanged.
C8_IdempotentCafePlain ==
    /\ Idempotent
    /\ (Len(ct_hist) >= 2 /\ ct_hist[1] = CafeEmDashTest
           => ct_hist[2] = CafePlainHyphenTest)

\* C8 amended: clean_text(clean_text(s)) = clean_text(s) for every s, and
\* "café—test" maps to "café-test" (the em dash becomes a hyphen, the é stays),
\* which a second application leaves unchanged.
C8_IdempotentCafeAcute ==
    /\ Idempotent
    /\ (Len(ct_hist) >= 2 /\ ct_hist[1] = CafeEmDashTest
           => ct_hist[2] = CafeAcuteHyphenTest)

C8_Witness ==
    /\ Len(ct_hist) >= 3
    /\ ct_hist[1] = CafeEmDashTest
    /\ ct_hist[3] = CafeAcuteHyphenTest

----------------------------------------------------------------------------
(* C9 *)

PdfOver == "generate_pdf" \in Range(invoked) /\ pc \in {"Done", "Failed", "Raised"}

ChartNotice == "Chart could not be loaded."

\* C9 as stated: when the chart path does not exist at render time or the image
\* cannot be loaded, generate_pdf raises nothing, writes the document and returns
\* its path, and the document holds the chart notice in place of the image.  (A
\* text FPDF cannot encode and a file that cannot be written are set aside.)
C9_NoticeWhenChartMissing ==
    (/\ PdfOver
     /\ "pdf" \notin faults
     /\ chart_path # NoPath
     /\ ~chartEnv.exists \/ ~chartEnv.loadable) =>
        /\ exc = <<>>
        /\ pdf_path \in files
        /\ doc.chart = ChartNotice

\* C9 amended: a chart path that does not exist and an image that cannot be loaded
\* never make generate_pdf raise: it writes the document and returns its path.
\* The document holds the notice when the path exists and the image cannot be
\* loaded; when the path does not exist (or none is given) it holds neither image
\* nor notice.
C9_NoticeOnlyWhenUnloadable ==
    (PdfOver /\ "pdf" \notin faults) =>
        /\ exc = <<>>
        /\ pc = "Done"
        /\ pdf_path = ReportFile(symbol, clock)
        /\ pdf_path \in files
        /\ doc.chart = (IF chart_path = NoPath \/ ~chartEnv.exists THEN "none"
                        ELSE IF chartEnv.loadable THEN "image" ELSE ChartNotice)

C9_Witness ==
    /\ entry = "generate_pdf"
    /\ pc = "Done"
    /\ chart_path = ChartFile(symbol)
    /\ ~chartEnv.exists
    /\ doc.chart = "none"
    /\ doc.body # <<>>
    /\ pdf_path \in files

----------------------------------------------------------------------------
(* C10 *)

\* C10: the path generate_pdf returns is unique per invocation: no invocation
\* returns the path of a file an earlier invocation wrote, whatever the symbols and
\* the clock readings.
C10_ReportPathIsFresh ==
    [][(pc = "RenderingDocument" /\ pc' = "Done") => pdf_path' \notin files]_vars

----------------------------------------------------------------------------
(* C11 *)

\* fetch_stock_data returned a frame for the rows downloaded
FrameBuilt == ind_entry = "analyze_stock" /\ ind_pc \in {"extract", "done"}

\* C11: for every price sequence of fewer than 20 rows MA20 and Volatility are
\* NaN at every row; for every sequence of at least 50 rows MA50 is NaN at rows
\* 0..48 and a number from row 49 on (rows 1..49 and 50.. counted from 1); and
\* the KPIs extracted from 60 rows have ma20, ma50 and volatility that are not None.
C11_WindowsUnavailableUntilFull ==
    FrameBuilt =>
        LET n == Len(ind_rows)
        IN  /\ n < MA20Window =>
                \A i \in 1..n : ind_df.MA20[i] = NaN /\ ind_df.Volatility[i] = NaN
            /\ n >= MA50Window =>
                \A i \in 1..n : (ind_df.MA50[i] = NaN) <=> (i <= MA50Window - 1)
            /\ (ind_pc = "done" /\ n = 60) =>
                /\ ~ind_kpis.ma20.none
                /\ ~ind_kpis.ma50.none
                /\ ~ind_kpis.volatility.none

\* KPIs have been extracted from a download of 60 rows whose closes vary
C11_Witness ==
    /\ FrameBuilt
    /\ ind_pc = "done"
    /\ Len(ind_rows) = 60
    /\ ind_rows[59].Close # ind_rows[60].Close
    /\ ind_df.MA50[49] = NaN
    /\ ~ind_df.MA50[50].nan
    /\ ind_kpis.volatility.v > 0

----------------------------------------------------------------------------
(* C12 *)

\* the call of the indicator engine is over
IndicatorsOver == ind_pc \in {"done", "raised"}

\* the engine was given no rows: an empty download, an empty frame or None
NoPrices == Len(ind_rows) = 0

\* C12 as stated: an empty or missing price sequence given to the indicator
\* engine yields KPIs that are all None, and no exception is raised.
C12_EmptyYieldsAllNone ==
    (IndicatorsOver /\ NoPrices) =>
        /\ ind_pc = "done"
        /\ ind_exc = <<>>
        /\ ind_kpis = AllNoneKpis

\* C12 amended: extract_kpis given None or an empty frame returns KPIs that are
\* all None and raises nothing; an empty download makes fetch_stock_data raise
\* "No stock data found for <symbol>", and no KPIs are extracted.
C12_EmptyFrameAllNoneEmptyDownloadRaises ==
    (IndicatorsOver /\ NoPrices) =>
        IF ind_entry = "extract_kpis"
        THEN /\ ind_pc = "done"
             /\ ind_exc = <<>>
             /\ ind_kpis = AllNoneKpis
        ELSE /\ ind_pc = "raised"
             /\ ind_exc = <<"No stock data found for ", "TCS.NS">>

\* extract_kpis has returned for an empty frame
C12_Witness ==
    /\ ind_entry = "extract_kpis"
    /\ ind_df = EmptyFrame
    /\ ind_pc = "done"
    /\ ind_kpis = AllNoneKpis

----------------------------------------------------------------------------
(* C13 *)

\* the stages of run, by the methods that carry them out, and by their names in trace
StageMethods == <<"gather_news", "analyze_stock", "write_report", "generate_pdf">>
StageNames == <<"FetchingNews", "ComputingIndicators", "ComposingReport",
                "RenderingDocument">>

\* the stages invoked during the call, in order
StagesInvoked == SelectSeq(invoked, LAMBDA m : m \in Range(StageMethods))

IsPrefix(s, t) == Len(s) <= Len(t) /\ \A i \in 1..Len(s) : s[i] = t[i]

StageInvoked(m) == m \in Range(invoked)

----------------------------------------------------------------------------
(* C14 *)

\* how many times the call invoked the method m
Attempts(m) == Len(SelectSeq(invoked, LAMBDA x : x = m))

\* C14: in one gather_news call, whatever the source mode, the keyed source
\* (_fetch_news_newsapi) is attempted at most once and the feed (_fetch_news_rss)
\* at most once; no source is attempted again after it has failed.
C14_EachSourceAtMostOnce ==
    /\ Attempts("_fetch_news_newsapi") <= 1
    /\ Attempts("_fetch_news_rss") <= 1

----------------------------------------------------------------------------
(* C15 *)

Digits == 48..57

\* the heading convention as stated: a leading "N." with N an integer from 1 to 8,
\* which "10." and a decimal number such as "1.5" do not match; blanks around
\* the line are not held against it
MatchesHeadingConvention(line) ==
    LET l == Strip(line)
    IN  /\ Len(l) >= 2
        /\ l[1] \in 49..56
        /\ l[2] = 46
        /\ (Len(l) >= 3 => l[3] \notin Digits)

\* C15: generate_pdf lays a line of the report body out in heading style if and
\* only if it matches the heading convention, a leading "N." with N from 1 to 8;
\* every other line, "9.", "10." and "1.5" among them, is laid out in body style.
C15_HeadingIffOneToEight ==
    (pc = "Done" /\ doc # NoDoc) =>
        \A i \in 1..Len(doc.body) :
            doc.body[i].style = "heading" <=> MatchesHeadingConvention(doc.body[i].text)

====
